---- MODULE Spec2Model ----
(***************************************************************************)
(* certcheck: the bounded-concurrency certificate-probing engine of        *)
(* pkg/hosts (HostSet.Process, HostSet.Process2, getDomainAndPort,         *)
(* getCertData, CertDataSet.finalize).                                     *)
(*                                                                         *)
(* Strings are sequences of byte codes, so that strings.Split, the port    *)
(* regexp and the sort by Host are computed as the code computes them.     *)
(* Times are whole hours.                                                  *)
(***************************************************************************)
EXTENDS Integers, Sequences, FiniteSets, TLC

\* ------------------------------------------------------------------ bounds

\* Longest host list handed to the call in Spec.
MaxHosts == 2

\* Number of probe goroutines beyond the semaphore capacity in SpecSem and
\* SpecSem2.
ExtraTasks == 1

\* Calls that may run at the same time.
NumCalls == 2

\* Longest raw target string in SpecFn.
MaxLen == 3

\* Promises the caller of package gcon may create in SpecGcon.
NumPromises == 2

\* Goroutines that call Get and GetNow in SpecGcon.
NumGetters == 2

\* Calls of a Func wrapped by WithCancellation in SpecCancel.
NumWrapped == 2

\* --------------------------------------------------------------- constants

\* semaphore.NewWeighted(int64(6))
SemCapacity == 6

\* ':' as strings.Contains / strings.Split see it
ChColon == 58

\* args.WarnAtDays default
DefaultWarnAtDays == 30

\* time.Now(): the instant of the run (November 2026), in hours since the
\* Unix epoch
Now == 498250

\* The largest number of whole hours an int64 of nanoseconds holds
\* (2^63 ns = 2562047.79 h): Time.UnixNano and int64 arithmetic wrap
\* around beyond it.
Int64Hours == 2562047

\* Mutant of tlsDefaultPort: "80".
PortEighty == <<56, 48>>

\* tlsDefaultPort = "443"
tlsDefaultPort == <<52, 52, 51>>


\* ----------------------------------------------------------------- strings

IsDigit(c) == c \in 48..57

\* strings.Contains(s, ":")
Contains(s, c) == \E i \in 1..Len(s) : s[i] = c

\* strings.Split(s, sep) for a one-byte separator: the pieces between the
\* separators, empty pieces included.
RECURSIVE Split(_, _)
Split(s, c) ==
    IF ~Contains(s, c) THEN <<s>>
    ELSE LET p == CHOOSE i \in 1..Len(s) :
                     s[i] = c /\ \A j \in 1..(i - 1) : s[j] # c
         IN  <<SubSeq(s, 1, p - 1)>> \o Split(SubSeq(s, p + 1, Len(s)), c)

\* regexp.MatchString(`\d+`, port): the pattern is not anchored, so it
\* matches when the port holds a digit anywhere.
MatchDigits(port) == \E i \in 1..Len(port) : IsDigit(port[i])

\* Go's < on strings: bytewise lexicographic.
RECURSIVE StrLess(_, _)
StrLess(a, b) ==
    IF b = <<>> THEN FALSE
    ELSE IF a = <<>> THEN TRUE
    ELSE IF a[1] # b[1] THEN a[1] < b[1]
    ELSE StrLess(Tail(a), Tail(b))

\* ------------------------------------------------------------------ errors

\* An error value: its text is `text` followed by the string `arg`.
nil == [text |-> "", arg |-> <<>>]

Error(text, arg) == [text |-> text, arg |-> arg]

\* --------------------------------------------------------- getDomainAndPort

getDomainAndPort(input) ==
    IF Contains(input, ChColon)
    THEN LET parts == Split(input, ChColon)
         IN  IF Len(parts) = 1
             THEN IF MatchDigits(tlsDefaultPort)
                  THEN [host |-> parts[1], port |-> tlsDefaultPort, err |-> nil]
                  ELSE [host |-> parts[1], port |-> tlsDefaultPort,
                        err |-> Error("Port is not an integer ", tlsDefaultPort)]
             ELSE IF Len(parts) = 2
             THEN IF MatchDigits(parts[2])
                  THEN [host |-> parts[1], port |-> parts[2], err |-> nil]
                  ELSE [host |-> parts[1], port |-> parts[2],
                        err |-> Error("Port is not an integer ", parts[2])]
             ELSE [host |-> <<>>, port |-> <<>>,
                   err |-> Error("invalid host string ", input)]
    ELSE IF MatchDigits(tlsDefaultPort)
         THEN [host |-> input, port |-> tlsDefaultPort, err |-> nil]
         ELSE [host |-> input, port |-> tlsDefaultPort,
               err |-> Error("Port is not an integer ", tlsDefaultPort)]

\* fmt.Sprintf("%s:%s", host, port)
HostAndPort(host, port) == host \o <<ChColon>> \o port

\* The dedup key the dispatchers compute for a raw target.
KeyOf(item) ==
    LET r == getDomainAndPort(item) IN HostAndPort(r.host, r.port)

\* ---------------------------------------------------------------- CertData

\* CertData{}: the zero value.  CheckTime and FetchTime are wall-clock
\* strings and are not modelled.  NotBefore and NotAfter are <<>> when the
\* string is empty and <<t>> when it is the formatted time t.
ZeroCertData ==
    [ExpiryWarning |-> FALSE, HostError |-> FALSE, Message |-> nil,
     Host |-> <<>>, Issuer |-> "", Port |-> <<>>, TotalDays |-> 0,
     DaysToExpiry |-> 0, WarnAtDays |-> 0, NotBefore |-> <<>>,
     NotAfter |-> <<>>]

newCertData == ZeroCertData

\* Mutant of ErrCertData: the HostError flag is not set.
ErrCertDataUnflagged(err) == [newCertData EXCEPT !.Message = err]

\* The outcome both dispatchers synthesize for a target that failed
\* normalization.
ErrCertData(err) ==
    [newCertData EXCEPT !.HostError = TRUE, !.Message = err]

\* What the network answers to one dial: the dial error ("" when the
\* handshake succeeds), the VerifyHostname error ("" when the name
\* matches) and the leaf certificate.
RespTimeout ==
    [dialErr |-> "i/o timeout", verifyErr |-> "", issuer |-> "",
     notBefore |-> 0, notAfter |-> 0]

RespMismatch ==
    [dialErr |-> "", verifyErr |-> "x509: certificate is not valid for the name",
     issuer |-> "CN=R3", notBefore |-> Now - 240, notAfter |-> Now + 1224]

\* a certificate with 51 days left
RespValid ==
    [dialErr |-> "", verifyErr |-> "", issuer |-> "CN=R3",
     notBefore |-> Now - 240, notAfter |-> Now + 1224]

\* a certificate with 10 days left
RespExpiring ==
    [dialErr |-> "", verifyErr |-> "", issuer |-> "CN=R3",
     notBefore |-> Now - 1920, notAfter |-> Now + 240]

Responses == {RespTimeout, RespMismatch, RespValid, RespExpiring}

\* Go's integer division truncates toward zero.
GoDiv(a, b) == IF a >= 0 THEN a \div b ELSE -((-a) \div b)

\* int64 arithmetic on nanoseconds, in hours: the value wrapped into
\* -Int64Hours .. Int64Hours.
WrapInt64(x) == ((x + Int64Hours) % (2 * Int64Hours + 1)) - Int64Hours

\* t.UnixNano(): wraps for a time outside the years 1678 to 2262.
UnixNano(t) == WrapInt64(t)

\* warnIf := warnAtDays * 24 * int(time.Hour)
warnIf(warnAtDays) == warnAtDays * 24

\* Mutant of daysLeft: the quotient is taken whatever its sign.
daysLeftUnguarded(notAfter) ==
    GoDiv(WrapInt64(UnixNano(notAfter) - UnixNano(Now)), 24)

\* daysLeft: 0 unless nanosToExpiry > int64(time.Hour+24), that is, more
\* than one hour and 24 ns, which for whole hours is more than one hour.
daysLeft(notAfter) ==
    LET nanosToExpiry == WrapInt64(UnixNano(notAfter) - UnixNano(Now))
    IN  IF nanosToExpiry > 1 THEN GoDiv(nanosToExpiry, 24) ELSE 0

\* expired := time.Now().Add(warnIf).UnixNano() > notAfter.UnixNano()
expired(warnAtDays, notAfter) ==
    UnixNano(Now + warnIf(warnAtDays)) > UnixNano(notAfter)

\* Mutant of DialFailure: the outcome is not flagged as a host error.
DialFailureUnflagged(certData, err) ==
    [certData EXCEPT
        !.Message = Error("Server doesn't support TLS certificate err: %!s(MISSING)", err)]

\* The outcome returned when tls.DialWithDialer fails.  Sprintf is given
\* the format and the error joined into one string and no argument, so the
\* verb prints as %!s(MISSING) and the error text follows it.
DialFailure(certData, err) ==
    [certData EXCEPT !.HostError = TRUE,
        !.Message = Error("Server doesn't support TLS certificate err: %!s(MISSING)", err)]

\* Mutant of VerifyFailure: the issuer is filled in before the return.
VerifyFailureWithIssuer(certData, err) ==
    [certData EXCEPT !.HostError = TRUE, !.Issuer = "CN=R3",
        !.Message = Error("Hostname doesn't match with certificate: %!s(MISSING)", err)]

\* The outcome returned when conn.VerifyHostname fails.
VerifyFailure(certData, err) ==
    [certData EXCEPT !.HostError = TRUE,
        !.Message = Error("Hostname doesn't match with certificate: %!s(MISSING)", err)]

\* The connection tls.DialWithDialer returned, when getCertData returns:
\* there is none when the dial failed, and otherwise it is open, on the
\* hostname-mismatch path and on the success path alike, for getCertData
\* has no conn.Close().
ConnAfter(resp) == IF resp.dialErr # "" THEN "none" ELSE "open"

getCertData(host, port, warnAtDays, resp) ==
    LET certData == [newCertData EXCEPT !.Host = host, !.Port = port,
                                        !.HostError = FALSE,
                                        !.WarnAtDays = warnAtDays]
    IN  IF resp.dialErr # ""
        THEN DialFailure(certData, resp.dialErr)
        ELSE IF resp.verifyErr # ""
        THEN VerifyFailure(certData, resp.verifyErr)
        ELSE [certData EXCEPT !.HostError = FALSE,
                 !.Issuer = resp.issuer,
                 !.NotBefore = <<resp.notBefore>>,
                 !.NotAfter = <<resp.notAfter>>,
                 !.DaysToExpiry = daysLeft(resp.notAfter),
                 !.TotalDays = GoDiv(WrapInt64(UnixNano(resp.notAfter)
                                               - UnixNano(resp.notBefore)), 24),
                 !.Message = Error("OK", <<>>),
                 !.ExpiryWarning = expired(warnAtDays, resp.notAfter)]

\* ------------------------------------------------------------- CertDataSet

NewCertDataSet ==
    [Total |-> 0, HostErrors |-> 0, ExpiredWarnings |-> 0, CertData |-> <<>>]

\* the entries of s that finalize's loop counts as host errors
CountHostErrors(s) == Cardinality({ i \in 1..Len(s) : s[i].HostError })

\* the entries of s that finalize's loop counts as expiry warnings
CountExpiryWarnings(s) == Cardinality({ i \in 1..Len(s) : s[i].ExpiryWarning = TRUE })

\* r with x put after its first p entries
InsertAt(r, p, x) == SubSeq(r, 1, p) \o <<x>> \o SubSeq(r, p + 1, Len(r))

\* Mutant of SortedByHost: the slice is left in the order it was filled.
Unsorted(s) == {s}

\* sort.Slice(CertData, Host < Host): every arrangement of s in which no
\* entry comes before one with a smaller Host.  sort.Slice is not stable, so
\* entries with equal Host may come out in any order.
RECURSIVE SortedByHost(_)
SortedByHost(s) ==
    IF s = <<>> THEN {<<>>}
    ELSE LET x == Head(s)
         IN  UNION { { InsertAt(r, p, x) :
                         p \in { q \in 0..Len(r) :
                                   /\ \A i \in 1..q : ~StrLess(x.Host, r[i].Host)
                                   /\ \A i \in (q + 1)..Len(r) : ~StrLess(r[i].Host, x.Host) } } :
                     r \in SortedByHost(Tail(s)) }

\* Mutant of finalize: the host-error counter is bumped for every entry.
finalizeMiscount(set) ==
    { [Total           |-> set.Total + Len(set.CertData),
       HostErrors      |-> set.HostErrors + Len(set.CertData),
       ExpiredWarnings |-> set.ExpiredWarnings + CountExpiryWarnings(set.CertData),
       CertData        |-> sorted] : sorted \in SortedByHost(set.CertData) }

\* finalize: count, then sort.  The set of the reports it can leave.
finalize(set) ==
    { [Total           |-> set.Total + Len(set.CertData),
       HostErrors      |-> set.HostErrors + CountHostErrors(set.CertData),
       ExpiredWarnings |-> set.ExpiredWarnings + CountExpiryWarnings(set.CertData),
       CertData        |-> sorted] : sorted \in SortedByHost(set.CertData) }

\* ------------------------------------------------------------------- state

VARIABLES
    hosts,        \* hosts[c]: HostSet.Hosts of call c
    mode,         \* mode[c]: "Process" or "Process2"
    warnAtDays,   \* warnAtDays[c]: the call's argument
    pc,           \* pc[c]: where the calling goroutine of call c is
    idx,          \* idx[c]: targets the dispatch loop has been through
    got,          \* got[c]: promises of runList that Process2 has collected
    hostMap,      \* hostMap[c]: keys seen so far (the map's true entries)
    wg,           \* wg[c]: the WaitGroup counter of Process
    closed,       \* closed[c]: certDataChan is closed
    certDataSet,  \* certDataSet[c]: the report being built
    task,         \* task[c][k]: the goroutine started for hosts[c][k]
    sem,          \* slots of the package semaphore that are held
    mu,           \* holder of the package mutex, <<>> when free
    net,          \* the answers the network may give to a dial
    promise,      \* promise[p]: the gcon.Promise p and its goroutine
    caller,       \* the goroutine that calls gcon.Run and gcon.Wait
    getter,       \* getter[g]: a goroutine that calls Get and GetNow
    waitst,       \* the locals of a call of Wait: wg, errChan, done
    helper,       \* helper[i]: the goroutine Wait starts for member i
    wc            \* wc[w]: a call of a Func wrapped by WithCancellation

\* The state of package hosts and of the network.
hostsVars == <<hosts, mode, warnAtDays, pc, idx, got, hostMap, wg, closed,
               certDataSet, task, sem, mu, net>>

\* The state of a program that uses package gcon.
gconVars == <<promise, caller, getter, waitst, helper, wc>>

vars == <<hostsVars, gconVars>>

\* A goroutine that has not been started.
NoTask ==
    [pc |-> "none", defers |-> <<>>, val |-> ZeroCertData, err |-> nil,
     holds |-> FALSE, dialed |-> FALSE, resp |-> {}, found |-> FALSE,
     conn |-> "none"]

Calls == 1..NumCalls

\* Positions of a host list, and so the goroutines one call may start.
Items == 1..(MaxHosts + SemCapacity + ExtraTasks)

IsItem(c, k) == k <= Len(hosts[c])

Parsed(c, k) == getDomainAndPort(hosts[c][k])

Key(c, k) == KeyOf(hosts[c][k])

\* Mutant of Seen: the dedup map is never consulted.
SeenNever(c, hostAndPort) == FALSE

\* Mutant of Seen: the dedup map outlives the call that filled it.
SeenByAnyCall(c, hostAndPort) == \E d \in Calls : hostAndPort \in hostMap[d]

\* hostMap[hostAndPort]
Seen(c, hostAndPort) == hostAndPort \in hostMap[c]

\* Mutant of SlotFree: Acquire never blocks.
SlotAlwaysFree == TRUE

\* sem.Acquire(semCtx, 1) does not block: a slot of the capacity is free.
SlotFree == sem < SemCapacity

\* ------------------------------------------------------------ HostSet.Process

\* Process up to wg.Add(len(hostSet.Hosts)); with no hosts the dispatch loop
\* is empty and the closer goroutine is started at once.
ProcessStart(c) ==
    /\ pc[c] = "start"
    /\ mode[c] = "Process"
    /\ wg' = [wg EXCEPT ![c] = Len(hosts[c])]
    /\ pc' = [pc EXCEPT ![c] = IF hosts[c] = <<>> THEN "collect" ELSE "dispatch"]
    /\ UNCHANGED <<gconVars, hosts, mode, warnAtDays, idx, got, hostMap, closed,
                   certDataSet, task, sem, mu, net>>

\* One turn of the loop of processHosts; after the last one the closer
\* goroutine is started and the caller ranges over certDataChan.
Dispatch(c) ==
    /\ pc[c] = "dispatch"
    /\ mode[c] = "Process"
    /\ idx[c] < Len(hosts[c])
    /\ LET k == idx[c] + 1
           r == Parsed(c, k)
           hostAndPort == HostAndPort(r.host, r.port)
       IN  /\ IF Seen(c, hostAndPort)
              THEN /\ wg' = [wg EXCEPT ![c] = @ - 1]
                   /\ UNCHANGED <<hostMap, task, net>>
              ELSE /\ hostMap' = [hostMap EXCEPT ![c] = @ \cup {hostAndPort}]
                   /\ task' = [task EXCEPT ![c][k] = [@ EXCEPT !.pc = "acquire"]]
                   /\ UNCHANGED wg
           /\ idx' = [idx EXCEPT ![c] = k]
           /\ pc' = [pc EXCEPT ![c] = IF k = Len(hosts[c]) THEN "collect" ELSE "dispatch"]
    /\ UNCHANGED <<gconVars, hosts, mode, warnAtDays, got, closed, certDataSet, sem, mu, net>>

\* sem.Acquire(semCtx, 1) of either goroutine of Process, with the defers
\* each has registered by then (listed in the order they will run), up to
\* the goroutine's next blocking point: the channel send for a target that
\* failed normalization, the dial inside getCertData otherwise.
Acquire(c, k) ==
    /\ IsItem(c, k)
    /\ task[c][k].pc = "acquire"
    /\ SlotFree
    /\ sem' = sem + 1
    /\ LET r == Parsed(c, k)
       IN  task' = [task EXCEPT ![c][k] =
               IF r.err # nil
               THEN [@ EXCEPT !.pc = "send", !.holds = TRUE,
                              !.defers = <<"wg.Done", "sem.Release">>,
                              !.val = ErrCertData(r.err)]
               ELSE [@ EXCEPT !.pc = "dial", !.holds = TRUE, !.dialed = TRUE,
                              !.defers = <<"sem.Release", "wg.Done">>]]
    /\ UNCHANGED <<gconVars, hosts, mode, warnAtDays, pc, idx, got, hostMap, wg, closed,
                   certDataSet, mu, net>>

\* getCertData returns in a goroutine of Process.
DialReturn(c, k) ==
    /\ IsItem(c, k)
    /\ mode[c] = "Process"
    /\ task[c][k].pc = "dial"
    /\ \E resp \in net :
         LET r == Parsed(c, k)
         IN  task' = [task EXCEPT ![c][k] =
                 [@ EXCEPT !.pc = "send", !.resp = {resp}, !.conn = ConnAfter(resp),
                           !.val = getCertData(r.host, r.port, warnAtDays[c], resp)]]
    /\ UNCHANGED <<gconVars, hosts, mode, warnAtDays, pc, idx, got, hostMap, wg, closed,
                   certDataSet, sem, mu, net>>

\* certDataChan <- certData meets the caller's range: the channel is
\* unbuffered, so the send completes only when the caller receives.
Send(c, k) ==
    /\ IsItem(c, k)
    /\ task[c][k].pc = "send"
    /\ pc[c] = "collect"
    /\ ~closed[c]
    /\ certDataSet' = [certDataSet EXCEPT ![c].CertData = Append(@, task[c][k].val)]
    /\ task' = [task EXCEPT ![c][k].pc = "defer"]
    /\ UNCHANGED <<gconVars, hosts, mode, warnAtDays, pc, idx, got, hostMap, wg, closed,
                   sem, mu, net>>

\* The goroutine returns: its deferred calls run, last registered first.
RunDeferred(c, k) ==
    /\ IsItem(c, k)
    /\ task[c][k].pc = "defer"
    /\ LET d == Head(task[c][k].defers)
           rest == Tail(task[c][k].defers)
       IN  /\ IF d = "sem.Release"
              THEN sem' = sem - 1 /\ UNCHANGED wg
              ELSE wg' = [wg EXCEPT ![c] = @ - 1] /\ UNCHANGED sem
           /\ task' = [task EXCEPT ![c][k] =
                  [@ EXCEPT !.defers = rest,
                            !.holds = IF d = "sem.Release" THEN FALSE ELSE @,
                            !.pc = IF rest = <<>> THEN "done" ELSE "defer"]]
    /\ UNCHANGED <<gconVars, hosts, mode, warnAtDays, pc, idx, got, hostMap, closed,
                   certDataSet, mu, net>>

\* The same return with the deferred calls run in one step: neither call
\* blocks, and nothing else happens in the goroutine between them.
RECURSIVE Count(_, _)
Count(ds, d) ==
    IF ds = <<>> THEN 0 ELSE (IF Head(ds) = d THEN 1 ELSE 0) + Count(Tail(ds), d)

\* Mutant of Return: the deferred sem.Release(1) is left out.
ReturnKeepsSlot(c, k) ==
    /\ IsItem(c, k)
    /\ task[c][k].pc = "defer"
    /\ wg' = [wg EXCEPT ![c] = @ - Count(task[c][k].defers, "wg.Done")]
    /\ task' = [task EXCEPT ![c][k] =
           [@ EXCEPT !.defers = <<>>, !.pc = "done"]]
    /\ UNCHANGED <<gconVars, hosts, mode, warnAtDays, pc, idx, got, hostMap, closed,
                   certDataSet, sem, mu, net>>

Return(c, k) ==
    /\ IsItem(c, k)
    /\ task[c][k].pc = "defer"
    /\ sem' = sem - Count(task[c][k].defers, "sem.Release")
    /\ wg' = [wg EXCEPT ![c] = @ - Count(task[c][k].defers, "wg.Done")]
    /\ task' = [task EXCEPT ![c][k] =
           [@ EXCEPT !.defers = <<>>, !.holds = FALSE, !.pc = "done"]]
    /\ UNCHANGED <<gconVars, hosts, mode, warnAtDays, pc, idx, got, hostMap, closed,
                   certDataSet, mu, net>>

\* Mutant of SendAndReturn: the deferred wg.Done() is left out.
SendAndReturnWithoutDone(c, k) ==
    /\ IsItem(c, k)
    /\ task[c][k].pc = "send"
    /\ pc[c] = "collect"
    /\ ~closed[c]
    /\ certDataSet' = [certDataSet EXCEPT ![c].CertData = Append(@, task[c][k].val)]
    /\ sem' = sem - Count(task[c][k].defers, "sem.Release")
    /\ task' = [task EXCEPT ![c][k] =
           [@ EXCEPT !.defers = <<>>, !.holds = FALSE, !.pc = "done"]]
    /\ UNCHANGED <<gconVars, hosts, mode, warnAtDays, pc, idx, got, hostMap, wg, closed,
                   mu, net>>

\* The send and the return that follows it, in one step: once the caller
\* has received, the goroutine runs its deferred calls, none of which
\* blocks, and ends.
SendAndReturn(c, k) ==
    /\ IsItem(c, k)
    /\ task[c][k].pc = "send"
    /\ pc[c] = "collect"
    /\ ~closed[c]
    /\ certDataSet' = [certDataSet EXCEPT ![c].CertData = Append(@, task[c][k].val)]
    /\ sem' = sem - Count(task[c][k].defers, "sem.Release")
    /\ wg' = [wg EXCEPT ![c] = @ - Count(task[c][k].defers, "wg.Done")]
    /\ task' = [task EXCEPT ![c][k] =
           [@ EXCEPT !.defers = <<>>, !.holds = FALSE, !.pc = "done"]]
    /\ UNCHANGED <<gconVars, hosts, mode, warnAtDays, pc, idx, got, hostMap, closed,
                   mu, net>>

\* Mutant of Close: the channel is closed without waiting for the counter.
CloseWithoutWaiting(c) ==
    /\ pc[c] = "collect"
    /\ ~closed[c]
    /\ closed' = [closed EXCEPT ![c] = TRUE]
    /\ UNCHANGED <<gconVars, hosts, mode, warnAtDays, pc, idx, got, hostMap, wg,
                   certDataSet, task, sem, mu, net>>

\* The closer goroutine: wg.Wait() then close(certDataChan).
Close(c) ==
    /\ pc[c] = "collect"
    /\ wg[c] = 0
    /\ ~closed[c]
    /\ closed' = [closed EXCEPT ![c] = TRUE]
    /\ UNCHANGED <<gconVars, hosts, mode, warnAtDays, pc, idx, got, hostMap, wg,
                   certDataSet, task, sem, mu, net>>

\* The range over the closed channel ends; finalize; return.
Finalize(c) ==
    /\ pc[c] = "collect"
    /\ closed[c]
    /\ \E set \in finalize(certDataSet[c]) :
         certDataSet' = [certDataSet EXCEPT ![c] = set]
    /\ pc' = [pc EXCEPT ![c] = "done"]
    /\ UNCHANGED <<gconVars, hosts, mode, warnAtDays, idx, got, hostMap, wg, closed,
                   task, sem, mu, net>>

\* ----------------------------------------------------------- HostSet.Process2

\* The caller, call c - 1 having returned, calls Process again on the same
\* HostSet.
ProcessAgain(c) ==
    /\ c > 1
    /\ mode[c] = "again"
    /\ pc[c - 1] = "done"
    /\ mode' = [mode EXCEPT ![c] = "Process"]
    /\ UNCHANGED <<gconVars, hosts, warnAtDays, pc, idx, got, hostMap, wg, closed,
                   certDataSet, task, sem, mu, net>>

Process2Start(c) ==
    /\ pc[c] = "start"
    /\ mode[c] = "Process2"
    /\ pc' = [pc EXCEPT ![c] = IF hosts[c] = <<>> THEN "get" ELSE "run"]
    /\ UNCHANGED <<gconVars, hosts, mode, warnAtDays, idx, got, hostMap, wg, closed,
                   certDataSet, task, sem, mu, net>>

\* runList = append(runList, gcon.Run(ctx, v, processHost)): the promise's
\* goroutine is started and the loop goes on at once.
Run(c) ==
    /\ pc[c] = "run"
    /\ idx[c] < Len(hosts[c])
    /\ LET k == idx[c] + 1
       IN  /\ task' = [task EXCEPT ![c][k] = [@ EXCEPT !.pc = "lock"]]
           /\ idx' = [idx EXCEPT ![c] = k]
           /\ pc' = [pc EXCEPT ![c] = IF k = Len(hosts[c]) THEN "get" ELSE "run"]
    /\ UNCHANGED <<gconVars, hosts, mode, warnAtDays, got, hostMap, wg, closed,
                   certDataSet, sem, mu, net>>

\* Mutant of MutexFree: mu.Lock() never blocks.
MutexAlwaysFree == TRUE

\* mu.Lock() does not block: no goroutine holds the mutex.
MutexFree == mu = <<>>

\* processHost up to the test in foundHostAndPort: mu.Lock() and the read
\* of hostMap[hostAndPort], whose result decides the branch taken.
Lock(c, k) ==
    /\ IsItem(c, k)
    /\ task[c][k].pc = "lock"
    /\ MutexFree
    /\ mu' = <<c, k>>
    /\ LET r == Parsed(c, k)
       IN  task' = [task EXCEPT ![c][k] =
               [@ EXCEPT !.pc = "locked",
                         !.found = Seen(c, HostAndPort(r.host, r.port))]]
    /\ UNCHANGED <<gconVars, hosts, mode, warnAtDays, pc, idx, got, hostMap, wg, closed,
                   certDataSet, sem, net>>

\* The rest of foundHostAndPort: the write of hostMap[hostAndPort] when the
\* key was absent and the deferred Unlock; then processHost up to its
\* return or to the dial inside getCertData.  A promise whose function has
\* returned is complete (pc "done") with the val and err the function
\* returned.
TestAndSet(c, k) ==
    /\ IsItem(c, k)
    /\ task[c][k].pc = "locked"
    /\ mu' = <<>>
    /\ LET r == Parsed(c, k)
           hostAndPort == HostAndPort(r.host, r.port)
       IN  IF task[c][k].found
           THEN /\ task' = [task EXCEPT ![c][k] = [@ EXCEPT !.pc = "done", !.err = r.err]]
                /\ UNCHANGED hostMap
           ELSE /\ hostMap' = [hostMap EXCEPT ![c] = @ \cup {hostAndPort}]
                /\ task' = [task EXCEPT ![c][k] =
                       IF r.err # nil
                       THEN [@ EXCEPT !.pc = "done", !.err = r.err,
                                      !.val = ErrCertData(r.err)]
                       ELSE [@ EXCEPT !.pc = "dial", !.dialed = TRUE]]
    /\ UNCHANGED <<gconVars, hosts, mode, warnAtDays, pc, idx, got, wg, closed,
                   certDataSet, sem, net>>

\* getCertData returns in a promise of Process2, and the promise completes.
DialReturn2(c, k) ==
    /\ IsItem(c, k)
    /\ mode[c] = "Process2"
    /\ task[c][k].pc = "dial"
    /\ \E resp \in net :
         LET r == Parsed(c, k)
         IN  task' = [task EXCEPT ![c][k] =
                 [@ EXCEPT !.pc = "done", !.resp = {resp}, !.conn = ConnAfter(resp),
                           !.val = getCertData(r.host, r.port, warnAtDays[c], resp)]]
    /\ UNCHANGED <<gconVars, hosts, mode, warnAtDays, pc, idx, got, hostMap, wg, closed,
                   certDataSet, sem, mu, net>>

\* Mutant of Get: the caller reads the promise without waiting for it.
GetWithoutWaiting(c) ==
    /\ pc[c] = "get"
    /\ got[c] < Len(hosts[c])
    /\ certDataSet' = [certDataSet EXCEPT ![c].CertData = Append(@, task[c][got[c] + 1].val)]
    /\ got' = [got EXCEPT ![c] = @ + 1]
    /\ UNCHANGED <<gconVars, hosts, mode, warnAtDays, pc, idx, hostMap, wg, closed,
                   task, sem, mu, net>>

\* v, err := p.Get() on the next promise of runList, in list order; the
\* value is appended whatever err is.
Get(c) ==
    /\ pc[c] = "get"
    /\ got[c] < Len(hosts[c])
    /\ task[c][got[c] + 1].pc = "done"
    /\ certDataSet' = [certDataSet EXCEPT ![c].CertData = Append(@, task[c][got[c] + 1].val)]
    /\ got' = [got EXCEPT ![c] = @ + 1]
    /\ UNCHANGED <<gconVars, hosts, mode, warnAtDays, pc, idx, hostMap, wg, closed,
                   task, sem, mu, net>>

\* Every promise collected: finalize; return.
Finalize2(c) ==
    /\ pc[c] = "get"
    /\ got[c] = Len(hosts[c])
    /\ \E set \in finalize(certDataSet[c]) :
         certDataSet' = [certDataSet EXCEPT ![c] = set]
    /\ pc' = [pc EXCEPT ![c] = "done"]
    /\ UNCHANGED <<gconVars, hosts, mode, warnAtDays, idx, got, hostMap, wg, closed,
                   task, sem, mu, net>>

\* ------------------------------------------------------------ package gcon

Promises == 1..NumPromises

Getters == 1..NumGetters

\* gcon.ErrIncomplete; the nil error is "".
ErrIncomplete == "incomplete"

\* What a Func may return: a value with a nil error, or the zero value
\* with an error.
FuncResults == { [val |-> 7, err |-> ""], [val |-> 0, err |-> "failed"] }

\* A Promise nobody has created: val and err hold their zero values, ret is
\* what the Func returned (<<>> while it has not) and runs counts the calls
\* of the Func.
NoPromise ==
    [state |-> "none", val |-> 0, err |-> "", ret |-> <<>>, runs |-> 0,
     src |-> 0, arg |-> <<>>]

NoGetter == [pc |-> "idle", op |-> "", p |-> 0, val |-> 0, err |-> "", sawDone |-> FALSE]

NoWait == [kind |-> "", pc |-> "none", n |-> 0, i |-> 0, wg |-> 0, errChan |-> <<>>,
           closer |-> "none", done |-> FALSE, err |-> ""]

NoHelper == [pc |-> "none", err |-> ""]

Wrapped == 1..NumWrapped

\* A call of the wrapper that has not been made.  pc is where the wrapper
\* is and inner where the goroutine that runs the wrapped Func is; val and
\* err are the variables the two share, ret is what the wrapped Func
\* returned and out what the wrapper returned.  by is the case its select
\* took, and early tells that the context was done before the wrapped
\* Func returned.
NoWrapped ==
    [pc |-> "none", inner |-> "none", val |-> 0, err |-> "", ret |-> <<>>,
     out |-> <<>>, by |-> "", early |-> FALSE]

\* No wrapper is called; ctxErr is ctx.Err(), nil while ctx is not done.
WcOff == wc = [ctxErr |-> "", off |-> TRUE, w |-> [w \in Wrapped |-> NoWrapped]]

\* No program uses package gcon directly.
GconOff ==
    /\ promise = [p \in Promises |-> NoPromise]
    /\ caller = [pc |-> "off", n |-> 0]
    /\ getter = [g \in Getters |-> NoGetter]
    /\ waitst = NoWait
    /\ helper = [p \in Promises |-> NoHelper]
    /\ WcOff

\* <-promise.done does not block: done is closed.
DoneClosed(p) == promise[p].state = "done"

\* The caller holds the pointer Run returned for promise p.
Available(p) == p <= caller.n /\ ~(caller.pc \in {"inRun", "inThen"} /\ p = caller.n)

\* Run up to and including its go statement: the Promise exists and its
\* goroutine is started.
RunCall(p) ==
    /\ caller.pc = "main"
    /\ p = caller.n + 1
    /\ promise' = [promise EXCEPT ![p] = [NoPromise EXCEPT !.state = "running"]]
    /\ caller' = [pc |-> "inRun", n |-> p]
    /\ UNCHANGED <<hostsVars, getter, waitst, helper, wc>>

\* Mutant of RunReturn: Run waits for done before it returns.
RunReturnAfterDone(p) ==
    /\ caller.pc = "inRun"
    /\ p = caller.n
    /\ DoneClosed(p)
    /\ caller' = [caller EXCEPT !.pc = "main"]
    /\ UNCHANGED <<hostsVars, promise, getter, waitst, helper, wc>>

\* return &p
RunReturn(p) ==
    /\ caller.pc = "inRun"
    /\ p = caller.n
    /\ caller' = [caller EXCEPT !.pc = "main"]
    /\ UNCHANGED <<hostsVars, promise, getter, waitst, helper, wc>>

\* p.val, p.err = f(ctx, t) in the goroutine of promise p.
FuncReturn(p) ==
    /\ promise[p].state = "running"
    /\ \E r \in FuncResults :
         promise' = [promise EXCEPT ![p] =
             [@ EXCEPT !.state = "assigned", !.val = r.val, !.err = r.err,
                       !.ret = <<r>>, !.runs = @ + 1]]
    /\ UNCHANGED <<hostsVars, caller, getter, waitst, helper, wc>>

\* The deferred close(done) of the goroutine of promise p.
CloseDone(p) ==
    /\ promise[p].state = "assigned"
    /\ promise' = [promise EXCEPT ![p].state = "done"]
    /\ UNCHANGED <<hostsVars, caller, getter, waitst, helper, wc>>

\* A goroutine calls promise.Get().
GetCall(g, p) ==
    /\ getter[g].pc \in {"idle", "returned"}
    /\ Available(p)
    /\ getter' = [getter EXCEPT ![g] = [NoGetter EXCEPT !.pc = "inGet", !.op = "Get", !.p = p]]
    /\ UNCHANGED <<hostsVars, promise, caller, waitst, helper, wc>>

\* Mutant of GetReturn: Get does not wait for done.
GetReturnEarly(g) ==
    /\ getter[g].pc = "inGet"
    /\ getter' = [getter EXCEPT ![g] =
           [@ EXCEPT !.pc = "returned", !.val = promise[getter[g].p].val,
                     !.err = promise[getter[g].p].err,
                     !.sawDone = DoneClosed(getter[g].p)]]
    /\ UNCHANGED <<hostsVars, promise, caller, waitst, helper, wc>>

\* <-promise.done; return promise.val, promise.err
GetReturn(g) ==
    /\ getter[g].pc = "inGet"
    /\ DoneClosed(getter[g].p)
    /\ getter' = [getter EXCEPT ![g] =
           [@ EXCEPT !.pc = "returned", !.val = promise[getter[g].p].val,
                     !.err = promise[getter[g].p].err,
                     !.sawDone = DoneClosed(getter[g].p)]]
    /\ UNCHANGED <<hostsVars, promise, caller, waitst, helper, wc>>

\* Mutant of GetNow: the default case is taken whatever done is.
GetNowAlwaysIncomplete(g, p) ==
    /\ getter[g].pc \in {"idle", "returned"}
    /\ Available(p)
    /\ getter' = [getter EXCEPT ![g] =
           [NoGetter EXCEPT !.pc = "returned", !.op = "GetNow", !.p = p,
                            !.sawDone = DoneClosed(p), !.err = ErrIncomplete]]
    /\ UNCHANGED <<hostsVars, promise, caller, waitst, helper, wc>>

\* promise.GetNow(): the select with a default case, in one step.
GetNow(g, p) ==
    /\ getter[g].pc \in {"idle", "returned"}
    /\ Available(p)
    /\ getter' = [getter EXCEPT ![g] =
           IF DoneClosed(p)
           THEN [NoGetter EXCEPT !.pc = "returned", !.op = "GetNow", !.p = p,
                                 !.sawDone = TRUE, !.val = promise[p].val,
                                 !.err = promise[p].err]
           ELSE [NoGetter EXCEPT !.pc = "returned", !.op = "GetNow", !.p = p,
                                 !.sawDone = FALSE, !.err = ErrIncomplete]]
    /\ UNCHANGED <<hostsVars, promise, caller, waitst, helper, wc>>

\* Mutant of DoneCall: Done answers true once val and err are assigned.
DoneOnceAssigned(g, p) ==
    /\ getter[g].pc \in {"idle", "returned"}
    /\ Available(p)
    /\ getter' = [getter EXCEPT ![g] =
           [NoGetter EXCEPT !.pc = "returned", !.op = "Done", !.p = p,
                            !.sawDone = (promise[p].state \in {"assigned", "done"})]]
    /\ UNCHANGED <<hostsVars, promise, caller, waitst, helper, wc>>

\* promise.Done(): the select with a default case, in one step.
DoneCall(g, p) ==
    /\ getter[g].pc \in {"idle", "returned"}
    /\ Available(p)
    /\ getter' = [getter EXCEPT ![g] =
           [NoGetter EXCEPT !.pc = "returned", !.op = "Done", !.p = p,
                            !.sawDone = DoneClosed(p)]]
    /\ UNCHANGED <<hostsVars, promise, caller, waitst, helper, wc>>

\* Then(ctx, q, f) up to and including its go statement: the Promise
\* exists and its goroutine, which will call q.Get(), is started.
ThenCall(p, q) ==
    /\ caller.pc = "main"
    /\ p = caller.n + 1
    /\ q <= caller.n
    /\ promise' = [promise EXCEPT ![p] = [NoPromise EXCEPT !.state = "getting", !.src = q]]
    /\ caller' = [pc |-> "inThen", n |-> p]
    /\ UNCHANGED <<hostsVars, getter, waitst, helper, wc>>

\* return &promise
ThenReturn(p) ==
    /\ caller.pc = "inThen"
    /\ p = caller.n
    /\ caller' = [caller EXCEPT !.pc = "main"]
    /\ UNCHANGED <<hostsVars, promise, getter, waitst, helper, wc>>

\* Mutant of ThenGet: the Func is called whatever q.Get() returned.
ThenGetRunsAnyway(p) ==
    /\ promise[p].state = "getting"
    /\ DoneClosed(promise[p].src)
    /\ promise' = [promise EXCEPT ![p] =
           [@ EXCEPT !.state = "running", !.arg = <<promise[promise[p].src].val>>]]
    /\ UNCHANGED <<hostsVars, caller, getter, waitst, helper, wc>>

\* t, err := p.Get() in the goroutine of Then: it waits for the done of
\* the supplied Promise.  A non-nil err is stored and the goroutine
\* returns; otherwise f(ctx, t) is called, whose return is FuncReturn.
ThenGet(p) ==
    /\ promise[p].state = "getting"
    /\ DoneClosed(promise[p].src)
    /\ promise' = [promise EXCEPT ![p] =
           IF promise[promise[p].src].err # ""
           THEN [@ EXCEPT !.state = "assigned", !.err = promise[promise[p].src].err]
           ELSE [@ EXCEPT !.state = "running", !.arg = <<promise[promise[p].src].val>>]]
    /\ UNCHANGED <<hostsVars, caller, getter, waitst, helper, wc>>

\* Wait(promises...) and PromiseSet.Wait(), which have the same body, up to
\* the first loop: the members are the promises created so far.
WaitCall ==
    /\ caller.pc = "main"
    /\ caller' = [caller EXCEPT !.pc = "inWait"]
    /\ waitst' = [NoWait EXCEPT !.kind = "Wait", !.pc = "spawning",
                                !.n = caller.n, !.wg = caller.n]
    /\ UNCHANGED <<hostsVars, promise, getter, helper, wc>>

\* WaitAny(ws...) up to its loop, the Waiters being the promises created
\* so far.
WaitAnyCall ==
    /\ caller.pc = "main"
    /\ caller' = [caller EXCEPT !.pc = "inWait"]
    /\ waitst' = [NoWait EXCEPT !.kind = "WaitAny", !.pc = "spawning",
                                !.n = caller.n, !.wg = caller.n]
    /\ UNCHANGED <<hostsVars, promise, getter, helper, wc>>

\* Wait: go func(p Promise[V]) {...}(*p).  The argument is a copy of the
\* Promise made when the goroutine is started, so the helper's p.err is the
\* err the member has at this moment.  Nothing orders this read and the
\* write of the member's goroutine: it sees the zero value before the write
\* and the written value after it.
\* WaitAny: go func(w Waiter) {...}(w).  The helper holds the Waiter itself.
WaitSpawn(i) ==
    /\ waitst.pc = "spawning"
    /\ i = waitst.i + 1
    /\ i <= waitst.n
    /\ helper' = [helper EXCEPT ![i] =
           [pc |-> "waiting",
            err |-> IF waitst.kind = "Wait" THEN promise[i].err ELSE ""]]
    /\ waitst' = [waitst EXCEPT !.i = i]
    /\ UNCHANGED <<hostsVars, promise, caller, getter, wc>>

\* The closer goroutine is started and the caller reaches its select.
WaitSelect ==
    /\ waitst.pc = "spawning"
    /\ waitst.i = waitst.n
    /\ waitst' = [waitst EXCEPT !.pc = "select", !.closer = "waiting"]
    /\ UNCHANGED <<hostsVars, promise, caller, getter, helper, wc>>

\* The error err := p.Wait() (Wait: on the copy) or w.Wait() (WaitAny: on
\* the Waiter) gives helper i once done is closed.
HelperErr(i) == IF waitst.kind = "Wait" THEN helper[i].err ELSE promise[i].err

\* Mutant of HelperWake: errChan has no buffer, so a non-nil err is sent
\* only to a caller that is blocked in its select.
HelperWakeUnbuffered(i) ==
    /\ helper[i].pc = "waiting"
    /\ DoneClosed(i)
    /\ HelperErr(i) = "" \/ waitst.pc = "blocked"
    /\ helper' = [helper EXCEPT ![i].pc = "woke"]
    /\ waitst' =
         IF HelperErr(i) = "" THEN waitst
         ELSE [waitst EXCEPT !.pc = "woken", !.err = HelperErr(i)]
    /\ UNCHANGED <<hostsVars, promise, caller, getter, wc>>

\* Helper i wakes up; a non-nil err is sent on errChan, whose buffer holds
\* one error for each member.  When the caller is blocked in its select the
\* send is the event that wakes it, and the caller will return this error.
HelperWake(i) ==
    /\ helper[i].pc = "waiting"
    /\ DoneClosed(i)
    /\ helper' = [helper EXCEPT ![i].pc = "woke"]
    /\ waitst' =
         IF HelperErr(i) = "" THEN waitst
         ELSE IF waitst.pc = "blocked"
         THEN [waitst EXCEPT !.pc = "woken", !.err = HelperErr(i)]
         ELSE [waitst EXCEPT !.errChan = Append(@, HelperErr(i))]
    /\ UNCHANGED <<hostsVars, promise, caller, getter, wc>>

\* The deferred wg.Done() of helper i.
HelperDone(i) ==
    /\ helper[i].pc = "woke"
    /\ helper' = [helper EXCEPT ![i].pc = "done"]
    /\ waitst' = [waitst EXCEPT !.wg = @ - 1]
    /\ UNCHANGED <<hostsVars, promise, caller, getter, wc>>

\* The closer goroutine: wg.Wait() returns and the deferred close(done)
\* runs.  When the caller is blocked in its select the close is the event
\* that wakes it, and the caller will return nil.
CloserClose ==
    /\ waitst.closer = "waiting"
    /\ waitst.wg = 0
    /\ waitst' = [waitst EXCEPT !.closer = "done", !.done = TRUE,
                                !.pc = IF @ = "blocked" THEN "woken" ELSE @]
    /\ UNCHANGED <<hostsVars, promise, caller, getter, helper, wc>>

\* select finds errChan ready: case err := <-errChan: return err.  When
\* done is closed as well the choice between the two cases is random.
WaitReturnErr ==
    /\ waitst.pc = "select"
    /\ waitst.errChan # <<>>
    /\ waitst' = [waitst EXCEPT !.pc = "returned", !.err = Head(waitst.errChan),
                                !.errChan = Tail(@)]
    /\ caller' = [caller EXCEPT !.pc = "end"]
    /\ UNCHANGED <<hostsVars, promise, getter, helper, wc>>

\* select finds done closed: case <-done: return nil
WaitReturnNil ==
    /\ waitst.pc = "select"
    /\ waitst.done
    /\ waitst' = [waitst EXCEPT !.pc = "returned", !.err = ""]
    /\ caller' = [caller EXCEPT !.pc = "end"]
    /\ UNCHANGED <<hostsVars, promise, getter, helper, wc>>

\* select finds neither case ready and blocks.
WaitBlock ==
    /\ waitst.pc = "select"
    /\ waitst.errChan = <<>>
    /\ ~waitst.done
    /\ waitst' = [waitst EXCEPT !.pc = "blocked"]
    /\ UNCHANGED <<hostsVars, promise, caller, getter, helper, wc>>

\* The caller, woken in its select by a send or by the close, returns.
WaitWake ==
    /\ waitst.pc = "woken"
    /\ waitst' = [waitst EXCEPT !.pc = "returned"]
    /\ caller' = [caller EXCEPT !.pc = "end"]
    /\ UNCHANGED <<hostsVars, promise, getter, helper, wc>>

\* What ctx.Err() may be once ctx is done.
CtxErrors == {"context canceled", "context deadline exceeded"}

\* The cases of the wrapper's select that can proceed.
ReadyCases(w) ==
    (IF wc.ctxErr # "" THEN {"ctx"} ELSE {})
        \cup (IF wc.w[w].inner = "done" THEN {"done"} ELSE {})

\* The Func WithCancellation returned is called: done is made and the
\* goroutine that runs the wrapped Func is started.
WcCall(w) ==
    /\ ~wc.off
    /\ wc.w[w].pc = "none"
    /\ wc' = [wc EXCEPT !.w[w] = [NoWrapped EXCEPT !.pc = "select", !.inner = "running",
                                                   !.early = (wc.ctxErr # "")]]
    /\ UNCHANGED <<hostsVars, promise, caller, getter, waitst, helper>>

\* ctx is cancelled or its deadline passes: ctx.Done() is closed.  A
\* wrapper blocked in its select is woken by it and will take that case.
Cancel ==
    /\ ~wc.off
    /\ wc.ctxErr = ""
    /\ \E e \in CtxErrors :
         wc' = [wc EXCEPT !.ctxErr = e,
                  !.w = [w \in Wrapped |->
                           [@[w] EXCEPT
                              !.early = @ \/ wc.w[w].inner = "running",
                              !.pc = IF @ = "blocked" THEN "woken" ELSE @,
                              !.by = IF wc.w[w].pc = "blocked" THEN "ctx" ELSE @]]]
    /\ UNCHANGED <<hostsVars, promise, caller, getter, waitst, helper>>

\* Mutant of InnerReturn: the wrapped Func gives up once ctx is done.
InnerReturnUnlessCancelled(w) ==
    /\ wc.w[w].inner = "running"
    /\ wc.ctxErr = ""
    /\ \E r \in FuncResults :
         wc' = [wc EXCEPT !.w[w] = [@ EXCEPT !.inner = "assigned", !.val = r.val,
                                             !.err = r.err, !.ret = <<r>>]]
    /\ UNCHANGED <<hostsVars, promise, caller, getter, waitst, helper>>

\* val, err = f(ctx, t) in the goroutine the wrapper started.
InnerReturn(w) ==
    /\ wc.w[w].inner = "running"
    /\ \E r \in FuncResults :
         wc' = [wc EXCEPT !.w[w] = [@ EXCEPT !.inner = "assigned", !.val = r.val,
                                             !.err = r.err, !.ret = <<r>>]]
    /\ UNCHANGED <<hostsVars, promise, caller, getter, waitst, helper>>

\* The deferred close(done) of that goroutine.  A wrapper blocked in its
\* select is woken by it and will take that case.
InnerClose(w) ==
    /\ wc.w[w].inner = "assigned"
    /\ wc' = [wc EXCEPT !.w[w] =
           [@ EXCEPT !.inner = "done",
                     !.pc = IF @ = "blocked" THEN "woken" ELSE @,
                     !.by = IF wc.w[w].pc = "blocked" THEN "done" ELSE @]]
    /\ UNCHANGED <<hostsVars, promise, caller, getter, waitst, helper>>

\* select finds ctx.Done() closed: return zero, ctx.Err().  When done is
\* closed as well the choice between the two cases is random.
WcSelectCtx(w) ==
    /\ wc.w[w].pc = "select"
    /\ wc.ctxErr # ""
    /\ wc' = [wc EXCEPT !.w[w] =
           [@ EXCEPT !.pc = "returned", !.by = "ctx",
                     !.out = <<[val |-> 0, err |-> wc.ctxErr]>>]]
    /\ UNCHANGED <<hostsVars, promise, caller, getter, waitst, helper>>

\* select finds done closed: return val, err.
WcSelectDone(w) ==
    /\ wc.w[w].pc = "select"
    /\ wc.w[w].inner = "done"
    /\ wc' = [wc EXCEPT !.w[w] =
           [@ EXCEPT !.pc = "returned", !.by = "done",
                     !.out = <<[val |-> wc.w[w].val, err |-> wc.w[w].err]>>]]
    /\ UNCHANGED <<hostsVars, promise, caller, getter, waitst, helper>>

\* select finds neither case ready and blocks.
WcBlock(w) ==
    /\ wc.w[w].pc = "select"
    /\ ReadyCases(w) = {}
    /\ wc' = [wc EXCEPT !.w[w].pc = "blocked"]
    /\ UNCHANGED <<hostsVars, promise, caller, getter, waitst, helper>>

\* The wrapper, woken in its select, returns by the case that woke it.
WcWake(w) ==
    /\ wc.w[w].pc = "woken"
    /\ wc' = [wc EXCEPT !.w[w] =
           [@ EXCEPT !.pc = "returned",
                     !.out = IF wc.w[w].by = "ctx"
                             THEN <<[val |-> 0, err |-> wc.ctxErr]>>
                             ELSE <<[val |-> wc.w[w].val, err |-> wc.w[w].err]>>]]
    /\ UNCHANGED <<hostsVars, promise, caller, getter, waitst, helper>>

\* ----------------------------------------------------------- specifications

\* Raw targets: "a", "a:443", "b:1", "a:b", "a:b:1", "::".
Targets ==
    { <<97>>, <<97, 58, 52, 52, 51>>, <<98, 58, 49>>, <<97, 58, 98>>,
      <<97, 58, 98, 58, 49>>, <<58, 58>> }

RECURSIVE ListsUpTo(_, _)
ListsUpTo(S, n) ==
    IF n = 0 THEN {<<>>}
    ELSE LET shorter == ListsUpTo(S, n - 1)
         IN  shorter \cup { Append(l, x) : l \in { m \in shorter : Len(m) = n - 1 }, x \in S }

\* The state in which call c is about to run on host list hl[c] by method
\* md[c] ("idle": the call is not made) with threshold w[c], the network
\* answering from nt.
HostsBegin(hl, md, nt, w) ==
    /\ hosts = hl
    /\ mode = md
    /\ warnAtDays = w
    /\ pc = [c \in Calls |-> IF md[c] = "idle" THEN "idle" ELSE "start"]
    /\ idx = [c \in Calls |-> 0]
    /\ got = [c \in Calls |-> 0]
    /\ hostMap = [c \in Calls |-> {}]
    /\ wg = [c \in Calls |-> 0]
    /\ closed = [c \in Calls |-> FALSE]
    /\ certDataSet = [c \in Calls |-> NewCertDataSet]
    /\ task = [c \in Calls |-> [k \in 1..Len(hl[c]) |-> NoTask]]
    /\ sem = 0
    /\ mu = <<>>
    /\ net = nt

\* The same in a program that makes no call of package gcon of its own.
BeginWith(hl, md, nt, w) == HostsBegin(hl, md, nt, w) /\ GconOff

\* The same with the default threshold for every call.
Begin(hl, md, nt) == BeginWith(hl, md, nt, [c \in Calls |-> DefaultWarnAtDays])

\* One call, by either method, on any list of up to MaxHosts targets.
Init ==
    \E hl \in ListsUpTo(Targets, MaxHosts), m \in {"Process", "Process2"} :
        Begin([c \in Calls |-> IF c = 1 THEN hl ELSE <<>>],
              [c \in Calls |-> IF c = 1 THEN m ELSE "idle"],
              Responses)

\* "a", "b", "c", ...: n targets that normalize to n different keys.
DistinctHosts(n) == [k \in 1..n |-> <<96 + k>>]

\* Two calls of Process at the same time, on SemCapacity + ExtraTasks
\* targets between them, the network answering every dial alike.
InitSem ==
    Begin([c \in Calls |->
             IF c = 1 THEN DistinctHosts((SemCapacity + ExtraTasks + 1) \div 2)
             ELSE IF c = 2 THEN DistinctHosts((SemCapacity + ExtraTasks) \div 2)
             ELSE <<>>],
          [c \in Calls |-> IF c <= 2 THEN "Process" ELSE "idle"],
          {RespValid})

\* One call of Process2 on SemCapacity + ExtraTasks targets.
InitSem2 ==
    \E r \in Responses :
        Begin([c \in Calls |->
                 IF c = 1 THEN DistinctHosts(SemCapacity + ExtraTasks) ELSE <<>>],
              [c \in Calls |-> IF c = 1 THEN "Process2" ELSE "idle"],
              {r})

\* The bytes raw targets are made of in SpecFn: "a", "1", ":".
Alphabet == {97, 49, ChColon}

\* notAfter of 9999-12-31T23:59:59Z, the date RFC 5280 gives certificates
\* that have no expiry, in hours since the Unix epoch.
FarFuture == 70389527

\* The hours from Now to notAfter of the certificates of SpecFn: expired,
\* under a day, around one day, around 30 and 60 days.
ExpiryOffsets == {-48, -1, 0, 1, 2, 23, 24, 25, 48, 719, 720, 721, 1440}

\* The thresholds of SpecFn, in days.
WarnDays == {0, DefaultWarnAtDays, 2 * DefaultWarnAtDays}

Cert(notAfter) ==
    [dialErr |-> "", verifyErr |-> "", issuer |-> "CN=R3",
     notBefore |-> Now - 240, notAfter |-> notAfter]

CertResponses ==
    {RespTimeout, RespMismatch, Cert(FarFuture)}
        \cup { Cert(Now + d) : d \in ExpiryOffsets }

\* One call, by either method, on one raw target of up to MaxLen bytes,
\* with any threshold and any answer of the network.
InitFn ==
    \E item \in ListsUpTo(Alphabet, MaxLen), w \in WarnDays,
       r \in CertResponses, m \in {"Process", "Process2"} :
        BeginWith([c \in Calls |-> IF c = 1 THEN <<item>> ELSE <<>>],
                  [c \in Calls |-> IF c = 1 THEN m ELSE "idle"],
                  {r},
                  [c \in Calls |-> w])

NextProcess ==
    \E c \in Calls :
        \/ ProcessStart(c)
        \/ Dispatch(c)
        \/ Close(c)
        \/ Finalize(c)
        \/ \E k \in Items :
             \/ Acquire(c, k)
             \/ DialReturn(c, k)
             \/ Send(c, k)
             \/ RunDeferred(c, k)

\* Process with each goroutine's return taken as one step.
NextSem ==
    \E c \in Calls :
        \/ ProcessStart(c)
        \/ Dispatch(c)
        \/ Close(c)
        \/ Finalize(c)
        \/ \E k \in Items :
             \/ Acquire(c, k)
             \/ DialReturn(c, k)
             \/ Send(c, k)
             \/ Return(c, k)

NextProcess2 ==
    \E c \in Calls :
        \/ Process2Start(c)
        \/ Run(c)
        \/ Get(c)
        \/ Finalize2(c)
        \/ \E k \in Items :
             \/ Lock(c, k)
             \/ TestAndSet(c, k)
             \/ DialReturn2(c, k)

Next == NextProcess \/ NextProcess2

Spec == Init /\ [][Next]_vars

SpecSem == InitSem /\ [][NextSem]_vars

\* One call of Process on any list of up to MaxHosts targets or on
\* SemCapacity + ExtraTasks targets with different keys, every dial
\* returning.
InitLive ==
    \E hl \in ListsUpTo(Targets, MaxHosts) \cup {DistinctHosts(SemCapacity + ExtraTasks)} :
        Begin([c \in Calls |-> IF c = 1 THEN hl ELSE <<>>],
              [c \in Calls |-> IF c = 1 THEN "Process" ELSE "idle"],
              {RespValid})

\* Process with each goroutine's send and return taken as one step.
NextLive ==
    \E c \in Calls :
        \/ ProcessStart(c)
        \/ Dispatch(c)
        \/ Close(c)
        \/ Finalize(c)
        \/ \E k \in Items :
             \/ Acquire(c, k)
             \/ DialReturn(c, k)
             \/ SendAndReturn(c, k)

\* The scheduler runs some goroutine that can take a step, and a dial
\* that has been started returns.
SpecLive == InitLive /\ [][NextLive]_vars /\ WF_vars(NextLive)

\* Process called NumCalls times, one call after the other, on one HostSet
\* of up to MaxHosts targets, every dial succeeding or timing out.
InitRepeat ==
    \E hl \in ListsUpTo(Targets, MaxHosts) :
        Begin([c \in Calls |-> hl],
              [c \in Calls |-> IF c = 1 THEN "Process" ELSE "again"],
              {RespValid, RespTimeout})

NextRepeat == NextSem \/ \E c \in Calls : ProcessAgain(c)

SpecRepeat == InitRepeat /\ [][NextRepeat]_vars

SpecSem2 == InitSem2 /\ [][NextProcess2]_vars

SpecFn == InitFn /\ [][Next]_vars

\* A program that creates up to NumPromises promises with Run; no call of
\* package hosts is made.
InitGcon ==
    /\ HostsBegin([c \in Calls |-> <<>>], [c \in Calls |-> "idle"], {},
                  [c \in Calls |-> DefaultWarnAtDays])
    /\ promise = [p \in Promises |-> NoPromise]
    /\ caller = [pc |-> "main", n |-> 0]
    /\ getter = [g \in Getters |-> NoGetter]
    /\ waitst = NoWait
    /\ helper = [p \in Promises |-> NoHelper]
    /\ WcOff

\* Run and the goroutine it starts.
NextRun ==
    \/ \E p \in Promises : RunCall(p)
    \/ \E p \in Promises : RunReturn(p)
    \/ \E p \in Promises : FuncReturn(p)
    \/ \E p \in Promises : CloseDone(p)

\* The program reads its promises with Get and GetNow from NumGetters
\* goroutines.
NextGcon ==
    \/ NextRun
    \/ \E g \in Getters, p \in Promises : GetCall(g, p)
    \/ \E g \in Getters : GetReturn(g)
    \/ \E g \in Getters, p \in Promises : GetNow(g, p)

\* The program calls Wait on the promises it has created.
NextWait ==
    \/ NextRun
    \/ WaitCall
    \/ WaitAnyCall
    \/ \E i \in Promises : WaitSpawn(i)
    \/ WaitSelect
    \/ \E i \in Promises : HelperWake(i)
    \/ \E i \in Promises : HelperDone(i)
    \/ CloserClose
    \/ WaitReturnErr
    \/ WaitReturnNil
    \/ WaitBlock
    \/ WaitWake

\* The program creates promises with Run and with Then and asks them
\* whether they are done.
NextThen ==
    \/ NextRun
    \/ \E p \in Promises, q \in Promises : ThenCall(p, q)
    \/ \E p \in Promises : ThenReturn(p)
    \/ \E p \in Promises : ThenGet(p)
    \/ \E g \in Getters, p \in Promises : DoneCall(g, p)

SpecGcon == InitGcon /\ [][NextGcon]_vars

SpecThen == InitGcon /\ [][NextThen]_vars

SpecWait == InitGcon /\ [][NextWait]_vars

\* The steps of the goroutines of a call of Wait or WaitAny other than the
\* caller's select: the loop that starts the helpers, the helpers and the
\* closer.
WaitInternal ==
    \/ \E i \in Promises : WaitSpawn(i)
    \/ WaitSelect
    \/ \E i \in Promises : HelperWake(i)
    \/ \E i \in Promises : HelperDone(i)
    \/ CloserClose

\* The same program, the scheduler running some goroutine of the call
\* that can take a step.
SpecWaitFair == SpecWait /\ WF_vars(WaitInternal)

\* A program that calls a Func wrapped by WithCancellation NumWrapped
\* times with one context, which may be cancelled at any moment.
InitCancel ==
    /\ HostsBegin([c \in Calls |-> <<>>], [c \in Calls |-> "idle"], {},
                  [c \in Calls |-> DefaultWarnAtDays])
    /\ promise = [p \in Promises |-> NoPromise]
    /\ caller = [pc |-> "off", n |-> 0]
    /\ getter = [g \in Getters |-> NoGetter]
    /\ waitst = NoWait
    /\ helper = [p \in Promises |-> NoHelper]
    /\ wc = [ctxErr |-> "", off |-> FALSE, w |-> [w \in Wrapped |-> NoWrapped]]

NextCancel ==
    \/ \E w \in Wrapped : WcCall(w)
    \/ Cancel
    \/ \E w \in Wrapped : InnerReturn(w)
    \/ \E w \in Wrapped : InnerClose(w)
    \/ \E w \in Wrapped : WcSelectCtx(w)
    \/ \E w \in Wrapped : WcSelectDone(w)
    \/ \E w \in Wrapped : WcBlock(w)
    \/ \E w \in Wrapped : WcWake(w)

SpecCancel == InitCancel /\ [][NextCancel]_vars

\* The same, every wrapped Func returning in the end and its goroutine
\* going on to close done.
SpecCancelFair ==
    /\ SpecCancel
    /\ \A w \in Wrapped : WF_vars(InnerReturn(w)) /\ WF_vars(InnerClose(w))

\* ------------------------------------------------------------------ claims

\* The call has returned its report.
Returned(c) == pc[c] = "done"

\* certDataSet.CertData of call c
Report(c) == certDataSet[c].CertData

\* getDomainAndPort returns an error for the raw target.
Fails(item) == getDomainAndPort(item).err # nil

\* The dedup keys of a host list.
KeysOf(hl) == { KeyOf(hl[k]) : k \in 1..Len(hl) }

\* The raw targets of a host list that fail normalization.
FailingTargets(hl) == { hl[k] : k \in { j \in 1..Len(hl) : Fails(hl[j]) } }

\* The texts getDomainAndPort's errors start with.
ParseErrorTexts == {"invalid host string ", "Port is not an integer "}

RECURSIVE NumHostErrors(_)
NumHostErrors(s) ==
    IF s = <<>> THEN 0
    ELSE (IF Head(s).HostError THEN 1 ELSE 0) + NumHostErrors(Tail(s))

RECURSIVE NumExpiryWarnings(_)
NumExpiryWarnings(s) ==
    IF s = <<>> THEN 0
    ELSE (IF Head(s).ExpiryWarning THEN 1 ELSE 0) + NumExpiryWarnings(Tail(s))

\* The goroutines of calls by method m that are inside getCertData.
Dialing(m) ==
    { ck \in Calls \X Items :
        /\ IsItem(ck[1], ck[2])
        /\ mode[ck[1]] = m
        /\ task[ck[1]][ck[2]].pc = "dial" }

\* C1: the report Process returns has exactly one entry per distinct
\* host:port key of the host list, and a target whose key was seen earlier
\* in the list starts no goroutine and adds no entry.
C1_ProcessOneEntryPerKey ==
    \A c \in Calls :
        mode[c] = "Process" =>
            /\ Returned(c) => Len(Report(c)) = Cardinality(KeysOf(hosts[c]))
            /\ \A k \in Items :
                 (IsItem(c, k) /\ \E j \in 1..(k - 1) : Key(c, j) = Key(c, k))
                     => task[c][k].pc = "none"

\* Process has returned on a list in which the same host string comes
\* twice, and the report has one entry.
C1_Witness ==
    \E c \in Calls :
        /\ mode[c] = "Process"
        /\ Returned(c)
        /\ Len(hosts[c]) = 2
        /\ hosts[c][1] = hosts[c][2]
        /\ Len(Report(c)) = 1

\* C2: in the report Process2 returns a duplicate target leaves nothing:
\* the number of entries, and Total, equal the number of distinct keys.
C2_Process2DuplicateLeavesNothing ==
    \A c \in Calls :
        (mode[c] = "Process2" /\ Returned(c)) =>
            /\ Len(Report(c)) = Cardinality(KeysOf(hosts[c]))
            /\ certDataSet[c].Total = Cardinality(KeysOf(hosts[c]))

\* C3: in every returned report Total is the number of entries, HostErrors
\* the number of entries with HostError and ExpiredWarnings the number of
\* entries with ExpiryWarning.
C3_SummaryCounts ==
    \A c \in Calls :
        Returned(c) =>
            /\ certDataSet[c].Total = Len(Report(c))
            /\ certDataSet[c].HostErrors = NumHostErrors(Report(c))
            /\ certDataSet[c].ExpiredWarnings = NumExpiryWarnings(Report(c))

\* A returned report of two entries of which one is a host error and the
\* other carries an expiry warning.
C3_Witness ==
    \E c \in Calls :
        /\ Returned(c)
        /\ Len(Report(c)) = 2
        /\ certDataSet[c].Total = 2
        /\ certDataSet[c].HostErrors = 1
        /\ certDataSet[c].ExpiredWarnings = 1

\* C4: in every returned report the entries are in ascending order of Host.
C4_SortedByHost ==
    \A c \in Calls :
        Returned(c) =>
            \A i, j \in 1..Len(Report(c)) :
                i < j => ~StrLess(Report(c)[j].Host, Report(c)[i].Host)

\* Process2 collected the outcome of "b:1" before that of "a" (it collects
\* in list order), and the returned report lists host "a" before host "b".
C4_Witness ==
    \E c \in Calls :
        /\ mode[c] = "Process2"
        /\ Returned(c)
        /\ hosts[c] = << <<98, 58, 49>>, <<97>> >>
        /\ Report(c)[1].Host = <<97>>
        /\ Report(c)[2].Host = <<98>>

\* C5: at no time are more than SemCapacity goroutines of Process inside
\* getCertData, the goroutines of all running calls counted together.
C5_ProcessDialsWithinCapacity ==
    Cardinality(Dialing("Process")) <= SemCapacity

\* SemCapacity goroutines, of both calls, are inside getCertData and one
\* more waits for a slot.
C5_Witness ==
    /\ Cardinality(Dialing("Process")) = SemCapacity
    /\ \A c \in {1, 2} : \E k \in Items : <<c, k>> \in Dialing("Process")
    /\ \E c \in Calls, k \in Items : IsItem(c, k) /\ task[c][k].pc = "acquire"

\* C6: at no time are more than SemCapacity promises of Process2 inside
\* getCertData.
C6_Process2DialsWithinCapacity ==
    Cardinality(Dialing("Process2")) <= SemCapacity

\* C7: getCertData is never called for a target that fails normalization,
\* and the returned report holds for it an entry with HostError set and the
\* parse error as Message.
C7_ParseFailureOutcome ==
    \A c \in Calls, k \in Items :
        (IsItem(c, k) /\ Fails(hosts[c][k])) =>
            /\ ~task[c][k].dialed
            /\ Returned(c) =>
                 \E i \in 1..Len(Report(c)) :
                     /\ Report(c)[i].HostError
                     /\ Report(c)[i].Message = Parsed(c, k).err

\* C8: a call that has not returned can always take a step, and the
\* returned report holds, for every distinct key of the list, the outcome of
\* a target with that key: HostError and the parse error for a target that
\* failed normalization, and otherwise exactly what getCertData made of the
\* network's answer, a host error included.
C8_NoFailureAbortsBatch ==
    /\ (\E c \in Calls : mode[c] # "idle" /\ ~Returned(c)) => ENABLED Next
    /\ \A c \in Calls :
         Returned(c) =>
             \A key \in KeysOf(hosts[c]) :
                 \E k \in 1..Len(hosts[c]), i \in 1..Len(Report(c)) :
                     /\ Key(c, k) = key
                     /\ IF Fails(hosts[c][k])
                        THEN /\ Report(c)[i].HostError
                             /\ Report(c)[i].Message = Parsed(c, k).err
                        ELSE \E resp \in task[c][k].resp :
                               /\ Report(c)[i] =
                                    getCertData(Parsed(c, k).host, Parsed(c, k).port,
                                                warnAtDays[c], resp)
                               /\ Report(c)[i].HostError =
                                    (resp.dialErr # "" \/ resp.verifyErr # "")

\* A returned report of two entries: a target that failed normalization
\* and a target whose certificate was read.
C8_Witness ==
    \E c \in Calls :
        /\ Returned(c)
        /\ Len(Report(c)) = 2
        /\ \E k \in 1..Len(hosts[c]) : Fails(hosts[c][k])
        /\ \E k \in 1..Len(hosts[c]) : task[c][k].resp = {RespValid}
        /\ certDataSet[c].HostErrors = 1

\* C9: every raw target that fails normalization has its own entry: the
\* returned report has as many parse-error entries as the list has
\* different failing raw targets.
C9_FailingTargetsKeepTheirEntries ==
    \A c \in Calls :
        Returned(c) =>
            Cardinality({ i \in 1..Len(Report(c)) :
                            /\ Report(c)[i].HostError
                            /\ Report(c)[i].Message.text \in ParseErrorTexts })
                = Cardinality(FailingTargets(hosts[c]))

\* C10: no step taken for a target that fails normalization, by the
\* dispatcher or by the goroutine started for it, changes the dedup set or
\* the number of held semaphore slots.
C10_ParseFailureLeavesDedupAndLimiter ==
    [][ \A c \in Calls, k \in Items :
          (IsItem(c, k) /\ Fails(hosts[c][k]) /\ task'[c][k] # task[c][k])
              => (hostMap'[c] = hostMap[c] /\ sem' = sem) ]_vars

\* ------------------------------------------------- claims on getCertData

\* The goroutines and promises in which getCertData has returned.
Probed == { ck \in Calls \X Items :
              IsItem(ck[1], ck[2]) /\ task[ck[1]][ck[2]].resp # {} }

\* The answer getCertData got in a member of Probed.
RespOf(ck) == CHOOSE resp \in task[ck[1]][ck[2]].resp : TRUE

\* The outcome a goroutine or promise has computed.
ValOf(ck) == task[ck[1]][ck[2]].val

\* The handshake succeeded and the name matched.
Successful(resp) == resp.dialErr = "" /\ resp.verifyErr = ""

\* C11: for every successful probe ExpiryWarning is true exactly when
\* now + warnAtDays days >= notAfter.
C11_ExpiryWarningIffWithinThreshold ==
    \A ck \in Probed :
        Successful(RespOf(ck)) =>
            (ValOf(ck).ExpiryWarning
                <=> (Now + warnAtDays[ck[1]] * 24 >= RespOf(ck).notAfter))

\* C12: DaysToExpiry is negative in no outcome, computed or reported, and
\* is 0 in the outcome synthesized for a target that failed normalization.
C12_DaysToExpiryNeverNegative ==
    /\ \A c \in Calls, k \in Items :
         IsItem(c, k) =>
             /\ task[c][k].val.DaysToExpiry >= 0
             /\ Fails(hosts[c][k]) => task[c][k].val.DaysToExpiry = 0
    /\ \A c \in Calls :
         \A i \in 1..Len(Report(c)) : Report(c)[i].DaysToExpiry >= 0

\* A returned report whose entry is that of a successful probe of a
\* certificate that expired two days ago, with DaysToExpiry 0.
C12_Witness ==
    \E ck \in Probed :
        /\ Returned(ck[1])
        /\ RespOf(ck) = Cert(Now - 48)
        /\ Len(Report(ck[1])) = 1
        /\ Report(ck[1])[1] = ValOf(ck)
        /\ ~Report(ck[1])[1].HostError
        /\ Report(ck[1])[1].DaysToExpiry = 0

\* An outcome flagged as a host error says why and has no certificate data.
ErrorOutcomeIsBare(v) ==
    v.HostError =>
        /\ v.Message # nil
        /\ v.Message.text # ""
        /\ v.Issuer = ""
        /\ v.NotBefore = <<>>
        /\ v.NotAfter = <<>>
        /\ v.TotalDays = 0
        /\ v.DaysToExpiry = 0
        /\ v.ExpiryWarning = FALSE

\* C13: every outcome with HostError set, computed by getCertData or
\* synthesized by a dispatcher, in a task or in a report, has a non-empty
\* Message, empty Issuer, NotBefore and NotAfter, zero TotalDays and
\* DaysToExpiry and no ExpiryWarning.
C13_HostErrorOutcomeHasNoCertData ==
    /\ \A c \in Calls, k \in Items :
         IsItem(c, k) => ErrorOutcomeIsBare(task[c][k].val)
    /\ \A c \in Calls :
         \A i \in 1..Len(Report(c)) : ErrorOutcomeIsBare(Report(c)[i])

\* A returned report whose entry is the host error getCertData made of a
\* certificate that does not match the host name.
C13_Witness ==
    \E ck \in Probed :
        /\ Returned(ck[1])
        /\ RespOf(ck) = RespMismatch
        /\ Len(Report(ck[1])) = 1
        /\ Report(ck[1])[1].HostError
        /\ Report(ck[1])[1].Message.text
               = "Hostname doesn't match with certificate: %!s(MISSING)"

\* C14: the outcome of getCertData has HostError set exactly when the dial
\* or the hostname verification failed, with a message text of its own for
\* each, and otherwise has Message "OK"; the promise that ran getCertData
\* completes with a nil error.
C14_HostErrorIffDialOrVerifyFails ==
    \A ck \in Probed :
        LET resp == RespOf(ck)
            v    == ValOf(ck)
        IN  /\ v.HostError = (resp.dialErr # "" \/ resp.verifyErr # "")
            /\ resp.dialErr # "" =>
                 v.Message = Error("Server doesn't support TLS certificate err: %!s(MISSING)",
                                   resp.dialErr)
            /\ (resp.dialErr = "" /\ resp.verifyErr # "") =>
                 v.Message = Error("Hostname doesn't match with certificate: %!s(MISSING)",
                                   resp.verifyErr)
            /\ Successful(resp) => v.Message = Error("OK", <<>>)
            /\ task[ck[1]][ck[2]].err = nil

\* A promise of Process2 in which the dial timed out has completed with the
\* host error as its value and a nil error.
C14_Witness ==
    \E ck \in Probed :
        /\ mode[ck[1]] = "Process2"
        /\ RespOf(ck) = RespTimeout
        /\ task[ck[1]][ck[2]].pc = "done"
        /\ ValOf(ck).HostError
        /\ task[ck[1]][ck[2]].err = nil

\* ---------------------------------------------- claims on getDomainAndPort

\* The positions of the colons of a raw target.
Colons(s) == { i \in 1..Len(s) : s[i] = ChColon }

\* The goroutines and promises the dispatchers have started, each after
\* getDomainAndPort was applied to its raw target.
Started == { ck \in Calls \X Items :
               IsItem(ck[1], ck[2]) /\ task[ck[1]][ck[2]].pc # "none" }

\* Every byte of the string is a decimal digit, and there is one at least.
AllDigits(s) == s # <<>> /\ \A i \in 1..Len(s) : IsDigit(s[i])

\* C15: for a raw target with no colon getDomainAndPort gives the target as
\* host, port "443" and no error; with one colon the text left of it as
\* host and the text right of it as port; with more colons an "invalid host
\* string" error.
C15_HostAndPortByColonCount ==
    \A ck \in Started :
        LET item == hosts[ck[1]][ck[2]]
            r    == Parsed(ck[1], ck[2])
        IN  /\ Colons(item) = {} =>
                 r.host = item /\ r.port = <<52, 52, 51>> /\ r.err = nil
            /\ Cardinality(Colons(item)) = 1 =>
                 \A p \in Colons(item) :
                     /\ r.host = SubSeq(item, 1, p - 1)
                     /\ r.port = SubSeq(item, p + 1, Len(item))
            /\ Cardinality(Colons(item)) > 1 =>
                 r.err = Error("invalid host string ", item)

\* The probe of "a:1" has returned: getCertData was called with host "a"
\* and port "1".
C15_Witness ==
    \E ck \in Probed :
        /\ hosts[ck[1]][ck[2]] = <<97, 58, 49>>
        /\ Successful(RespOf(ck))
        /\ ValOf(ck).Host = <<97>>
        /\ ValOf(ck).Port = <<49>>

\* C16: for a raw target with at most one colon getDomainAndPort returns an
\* error exactly when the port is empty or holds a byte that is not a
\* decimal digit.
C16_ErrorIffPortNotNumeric ==
    \A ck \in Started :
        LET item == hosts[ck[1]][ck[2]]
            r    == Parsed(ck[1], ck[2])
        IN  Cardinality(Colons(item)) <= 1 =>
                ((r.err # nil) <=> ~AllDigits(r.port))

\* ------------------------------------------------- claims on package gcon

\* The goroutines that have returned from a call of method op.
ReturnedFrom(op) == { g \in Getters : getter[g].pc = "returned" /\ getter[g].op = op }

\* The (value, error) pair the Func of promise p returned.
Produced(p) == promise[p].ret[1]

\* C17: a Get that has returned did so after done was closed and with the
\* pair the Func returned, so any two Gets of one Promise return the same
\* pair; a Get of a Promise whose done is open cannot return, and a Get of
\* one whose done is closed can.
C17_GetWaitsAndReturnsThePair ==
    /\ \A g \in ReturnedFrom("Get") :
         /\ DoneClosed(getter[g].p)
         /\ getter[g].sawDone
         /\ promise[getter[g].p].ret # <<>>
         /\ getter[g].val = Produced(getter[g].p).val
         /\ getter[g].err = Produced(getter[g].p).err
    /\ \A g, h \in ReturnedFrom("Get") :
         getter[g].p = getter[h].p =>
             (getter[g].val = getter[h].val /\ getter[g].err = getter[h].err)
    /\ \A g \in Getters :
         getter[g].pc = "inGet" => (ENABLED GetReturn(g) <=> DoneClosed(getter[g].p))

\* Two goroutines have returned from Get on the same Promise, whose Func
\* failed, both with its error.
C17_Witness ==
    /\ {1, 2} \subseteq ReturnedFrom("Get")
    /\ getter[1].p = getter[2].p
    /\ getter[1].err = "failed"
    /\ getter[2].err = "failed"

\* C18: GetNow can return in every state of the Promise; called while done
\* is open it returns the zero value and ErrIncomplete, and called after
\* done was closed it returns the pair the Func returned, which is what Get
\* returns, and not ErrIncomplete.
C18_GetNowNeverBlocks ==
    /\ \A g \in Getters, p \in Promises :
         (getter[g].pc \in {"idle", "returned"} /\ Available(p))
             => ENABLED GetNow(g, p)
    /\ \A g \in ReturnedFrom("GetNow") :
         IF getter[g].sawDone
         THEN /\ promise[getter[g].p].ret # <<>>
              /\ getter[g].val = Produced(getter[g].p).val
              /\ getter[g].err = Produced(getter[g].p).err
              /\ getter[g].err # ErrIncomplete
         ELSE /\ getter[g].val = 0
              /\ getter[g].err = ErrIncomplete

\* Of two calls of GetNow on one Promise, one came before completion and
\* returned ErrIncomplete and the other came after it and returned the
\* value.
C18_Witness ==
    \E g, h \in ReturnedFrom("GetNow") :
        /\ getter[g].p = getter[h].p
        /\ ~getter[g].sawDone
        /\ getter[g].err = ErrIncomplete
        /\ getter[h].sawDone
        /\ getter[h].val = 7
        /\ getter[h].err = ""

\* C19: while the caller is inside Run the return is enabled whatever the
\* goroutine of the Promise has done, and the Func of a Promise is called
\* once: never before the Promise exists, never again after it returned.
C19_RunReturnsAtOnce ==
    /\ caller.pc = "inRun" => ENABLED RunReturn(caller.n)
    /\ \A p \in Promises :
         /\ promise[p].runs <= 1
         /\ promise[p].state \in {"none", "running"} => promise[p].runs = 0
         /\ promise[p].state \in {"assigned", "done"} => promise[p].runs = 1

\* Run has returned twice and the Func of neither Promise has returned:
\* both run while the caller goes on.
C19_Witness ==
    /\ caller.pc = "main"
    /\ caller.n = 2
    /\ promise[1].state = "running"
    /\ promise[2].state = "running"

\* C20: when Wait has returned, done is closed in every member Promise.
C20_WaitReturnsAfterAllComplete ==
    waitst.kind = "Wait" /\ waitst.pc = "returned" => \A i \in 1..waitst.n : DoneClosed(i)

\* C21: when Wait has returned nil the err of every member is nil, and when
\* it has returned an error that error is the err of a member.
C21_WaitReturnsAMemberError ==
    waitst.kind = "Wait" /\ waitst.pc = "returned" =>
        /\ waitst.err = "" => \A i \in 1..waitst.n : promise[i].err = ""
        /\ waitst.err # "" => \E i \in 1..waitst.n : promise[i].err = waitst.err

\* C25: when WaitAny has returned nil, no Waiter returned an error.
C25_WaitAnyNilOnlyWithoutErrors ==
    waitst.kind = "WaitAny" /\ waitst.pc = "returned" /\ waitst.err = "" =>
        \A i \in 1..waitst.n : promise[i].err = ""

\* The wrapper of call w has returned r.
WrapperReturned(w, r) == wc.w[w].pc = "returned" /\ wc.w[w].out = <<r>>

\* C22: a wrapper whose context was done before the wrapped Func returned
\* returns the zero value and ctx.Err(); a wrapper whose context is not
\* done returns what the wrapped Func returned.
C22_CancelledBeforeCompletionGivesCtxErr ==
    \A w \in Wrapped :
        wc.w[w].pc = "returned" =>
            /\ wc.w[w].early => WrapperReturned(w, [val |-> 0, err |-> wc.ctxErr])
            /\ wc.ctxErr = "" => wc.w[w].out = wc.w[w].ret

\* The wrapper of call w has returned zero, ctx.Err().
ReturnedCancelled(w) == wc.w[w].pc = "returned" /\ wc.w[w].by = "ctx"

\* The wrapped Func of call w has returned and its goroutine has ended.
TaskCompleted(w) == wc.w[w].inner = "done" /\ wc.w[w].ret # <<>>

\* C23: a wrapped Func whose wrapper has returned zero, ctx.Err() goes on
\* and returns by itself: the wrapper's return ends no goroutine.
C23_CancelledTaskRunsToCompletion ==
    \A w \in Wrapped : ReturnedCancelled(w) ~> TaskCompleted(w)

\* The wrapper has returned zero, ctx.Err() and the wrapped Func runs on.
C23_Witness ==
    \E w \in Wrapped : ReturnedCancelled(w) /\ wc.w[w].inner = "running"

\* Promise p was made by Then.
MadeByThen(p) == promise[p].src # 0

\* The Func of promise p has been called.
FuncCalled(p) == promise[p].state = "running" \/ promise[p].runs > 0

\* C24: while the caller is inside Then the return is enabled whatever the
\* supplied Promise does.  The Func of a Promise made by Then is called at
\* most once, only after the done of the supplied Promise was closed with a
\* nil err, and with its val; once the done of the Promise made by Then is
\* closed, either the supplied Promise has a non-nil err, which is the err
\* of the Promise, and the Func was not called, or the Func was called once
\* and the Promise holds what it returned.
C24_ThenPropagatesOrRunsOnce ==
    /\ \A p \in Promises :
         (caller.pc = "inThen" /\ p = caller.n) => ENABLED ThenReturn(p)
    /\ \A p \in { q \in Promises : MadeByThen(q) } :
         /\ promise[p].runs <= 1
         /\ FuncCalled(p) =>
              /\ DoneClosed(promise[p].src)
              /\ promise[promise[p].src].err = ""
              /\ promise[p].arg = <<promise[promise[p].src].val>>
         /\ DoneClosed(p) =>
              IF promise[promise[p].src].err # ""
              THEN /\ promise[p].err = promise[promise[p].src].err
                   /\ promise[p].runs = 0
                   /\ promise[p].arg = <<>>
              ELSE /\ promise[p].runs = 1
                   /\ promise[p].ret = <<[val |-> promise[p].val, err |-> promise[p].err]>>

\* Then was called on a Promise that is still running and has returned;
\* later the supplied Promise got the value 7 and the Func was called
\* with it.
C24_Witness ==
    /\ MadeByThen(2)
    /\ promise[2].src = 1
    /\ promise[1].val = 7
    /\ promise[2].arg = <<7>>
    /\ DoneClosed(2)
    /\ promise[2].runs = 1

\* val and err of promise p change in this step.
Assigns(p) == promise'[p].val # promise[p].val \/ promise'[p].err # promise[p].err

\* C26: val and err of a Promise change only in the step of its own
\* goroutine that assigns them, which comes before the close of done; once
\* done is closed nothing of the Promise changes, so done is closed once;
\* and a call of Done answers true exactly when done is closed.
C26_PromiseIsWriteOnce ==
    [][/\ \A p \in Promises :
            /\ Assigns(p) =>
                 /\ promise[p].state \in {"running", "getting"}
                 /\ promise'[p].state = "assigned"
                 /\ \A q \in Promises \ {p} : promise'[q] = promise[q]
            /\ (promise'[p].state = "done" /\ ~DoneClosed(p)) => promise[p].state = "assigned"
            /\ DoneClosed(p) => promise'[p] = promise[p]
       /\ \A g \in Getters :
            (getter'[g] # getter[g] /\ getter'[g].op = "Done") =>
                getter'[g].sawDone = DoneClosed(getter'[g].p)]_vars

\* One call of Done on promise 1 answered false, a later one answered
\* true, and the Promise holds the value its Func returned.
C26_Witness ==
    /\ DoneClosed(1)
    /\ promise[1].val = 7
    /\ \E g, h \in ReturnedFrom("Done") :
         /\ getter[g].p = 1 /\ ~getter[g].sawDone
         /\ getter[h].p = 1 /\ getter[h].sawDone

\* C27: the reports of two calls of Process on one HostSet have the same
\* number of entries, the number of distinct keys of the host list,
\* whatever the dials returned and in whatever order the goroutines ran.
C27_RepeatedProcessSameCount ==
    \A c \in Calls, d \in Calls :
        (Returned(c) /\ Returned(d)) =>
            /\ Len(Report(c)) = Len(Report(d))
            /\ Len(Report(c)) = Cardinality(KeysOf(hosts[c]))

\* Two calls on two different targets have returned; in the first both
\* dials succeeded and in the second both timed out.
C27_Witness ==
    /\ Returned(1)
    /\ Returned(2)
    /\ hosts[1] = hosts[2]
    /\ Len(Report(2)) = 2
    /\ \A k \in 1..2 : task[1][k].resp = {RespValid} /\ task[2][k].resp = {RespTimeout}

\* The dials of calls c and d returned the same for every target.
SameProbeResults(c, d) ==
    \A k \in Items : IsItem(c, k) => task[c][k].resp = task[d][k].resp

\* C28: two calls of Process on one host list whose dials returned the
\* same for every target return the same sequence of entries.
C28_ReportIsDeterministic ==
    \A c \in Calls, d \in Calls :
        (Returned(c) /\ Returned(d) /\ hosts[c] = hosts[d] /\ SameProbeResults(c, d))
            => Report(c) = Report(d)

\* The promises of call c whose key is key and whose goroutine has read
\* the dedup map.
Tested(c, key) ==
    { k \in Items : /\ IsItem(c, k)
                    /\ Key(c, k) = key
                    /\ task[c][k].pc \in {"locked", "dial", "done"} }

\* C29: among the promises of a call of Process2 that have the same key
\* and have read the dedup map, exactly one found the key absent; it alone
\* goes on to the probe or to the error outcome, and the others return
\* without dialing.
C29_Process2TestAndSetAtomic ==
    \A c \in Calls :
        mode[c] = "Process2" =>
            \A key \in KeysOf(hosts[c]) :
                /\ Tested(c, key) # {} =>
                     Cardinality({ k \in Tested(c, key) : ~task[c][k].found }) = 1
                /\ \A k \in Tested(c, key) :
                     task[c][k].found => ~task[c][k].dialed /\ task[c][k].pc # "dial"

\* Two promises have the same key; the goroutine of the second took the
\* mutex first, found the key absent and is dialing, and the goroutine of
\* the first found the key present.
C29_Witness ==
    \E c \in Calls :
        /\ mode[c] = "Process2"
        /\ Len(hosts[c]) = 2
        /\ Key(c, 1) = Key(c, 2)
        /\ task[c][2].pc = "dial"
        /\ ~task[c][2].found
        /\ task[c][1].pc \in {"locked", "done"}
        /\ task[c][1].found

\* C30: when Process2 has returned, every promise of its run list is
\* complete and was collected, and finalize has counted the entries once;
\* while a promise of the call is not complete finalize has not run.
C30_Process2WaitsForAll ==
    \A c \in Calls :
        mode[c] = "Process2" =>
            /\ Returned(c) =>
                 /\ \A k \in 1..Len(hosts[c]) : task[c][k].pc = "done"
                 /\ got[c] = Len(hosts[c])
                 /\ Len(Report(c)) = Len(hosts[c])
                 /\ certDataSet[c].Total = Len(hosts[c])
            /\ (\E k \in 1..Len(hosts[c]) : task[c][k].pc # "done") =>
                 /\ ~Returned(c)
                 /\ certDataSet[c].Total = 0

\* Process2 has returned on two targets with different keys, both of
\* which were dialed.
C30_Witness ==
    \E c \in Calls :
        /\ mode[c] = "Process2"
        /\ Returned(c)
        /\ Len(hosts[c]) = 2
        /\ task[c][1].dialed
        /\ task[c][2].dialed
        /\ certDataSet[c].Total = 2

\* C31: a goroutine of Process holds a semaphore slot only while it is
\* inside getCertData: not while it waits to send its result, and never in
\* a goroutine started for a target that failed normalization.
C31_SlotHeldOnlyAroundDial ==
    \A c \in Calls, k \in Items :
        (IsItem(c, k) /\ mode[c] = "Process" /\ task[c][k].holds)
            => task[c][k].pc = "dial"

\* Whole days in h hours, rounded down.
FloorDays(h) == h \div 24

\* C32: for every successful probe DaysToExpiry is the whole days from now
\* to notAfter, or 0 when notAfter has passed, and TotalDays is the whole
\* days from notBefore to notAfter.
C32_DaysToExpiryAndTotalDays ==
    \A ck \in Probed :
        Successful(RespOf(ck)) =>
            /\ ValOf(ck).DaysToExpiry =
                   (IF RespOf(ck).notAfter - Now > 0
                    THEN FloorDays(RespOf(ck).notAfter - Now) ELSE 0)
            /\ ValOf(ck).TotalDays =
                   FloorDays(RespOf(ck).notAfter - RespOf(ck).notBefore)

\* The goroutines of call c that have not yet run their wg.Done().
NotDone(c) ==
    { k \in Items : /\ IsItem(c, k)
                    /\ \/ task[c][k].pc \in {"acquire", "dial", "send"}
                       \/ /\ task[c][k].pc = "defer"
                          /\ Count(task[c][k].defers, "wg.Done") > 0 }

\* The goroutines of call c that have yet to send on certDataChan.
Senders(c) ==
    { k \in Items : IsItem(c, k) /\ task[c][k].pc \in {"acquire", "dial", "send"} }

\* C33: in Process the waitgroup counter is the number of targets not yet
\* dispatched plus the goroutines that have not run wg.Done(), so it is
\* never negative and a goroutine that has yet to send still counts; the
\* channel is closed only at counter zero, when no goroutine has a send
\* ahead of it, and once closed it stays closed.
C33_NoSendAfterClose ==
    /\ [](\A c \in Calls :
            (mode[c] = "Process" /\ pc[c] \notin {"idle", "start"}) =>
                /\ wg[c] >= 0
                /\ wg[c] = (Len(hosts[c]) - idx[c]) + Cardinality(NotDone(c))
                /\ Senders(c) \subseteq NotDone(c)
                /\ closed[c] => (wg[c] = 0 /\ Senders(c) = {}))
    /\ [][\A c \in Calls :
            /\ closed[c] => closed'[c]
            /\ (closed'[c] /\ ~closed[c]) => wg[c] = 0]_vars

\* The channel of a call on a probed target and a target that failed
\* normalization is closed, both entries having been received.
C33_Witness ==
    \E c \in Calls :
        /\ mode[c] = "Process"
        /\ closed[c]
        /\ Len(hosts[c]) = 2
        /\ Len(Report(c)) = 2
        /\ \E k \in 1..2 : Fails(hosts[c][k])
        /\ \E k \in 1..2 : task[c][k].dialed

\* C34: every call of Process returns.
C34_ProcessTerminates ==
    \A c \in Calls : (mode[c] = "Process") ~> Returned(c)

\* Process has returned on more targets than the semaphore has slots.
C34_Witness ==
    \E c \in Calls :
        /\ mode[c] = "Process"
        /\ Returned(c)
        /\ Len(hosts[c]) > SemCapacity
        /\ Len(Report(c)) = Len(hosts[c])

\* The goroutines of Process that hold a semaphore slot.
Holders ==
    { ck \in Calls \X Items :
        /\ IsItem(ck[1], ck[2])
        /\ mode[ck[1]] = "Process"
        /\ task[ck[1]][ck[2]].holds }

\* Every goroutine started by a call of Process has ended.
AllFinished ==
    \A c \in Calls, k \in Items :
        IsItem(c, k) => task[c][k].pc \in {"none", "done"}

\* C35: the slots taken from the semaphore are those of the goroutines
\* that hold one, so each is released once and by its holder; their
\* number stays between 0 and SemCapacity; and when every goroutine of
\* every call has ended none is taken.
C35_SemaphoreNeverLeaks ==
    /\ sem = Cardinality(Holders)
    /\ sem >= 0
    /\ sem <= SemCapacity
    /\ \A ck \in Holders : task[ck[1]][ck[2]].pc \in {"dial", "send", "defer"}
    /\ AllFinished => sem = 0

\* Both calls have returned, every goroutine has ended, SemCapacity +
\* ExtraTasks entries were reported, and no slot is taken.
C35_Witness ==
    /\ Returned(1)
    /\ Returned(2)
    /\ AllFinished
    /\ Len(Report(1)) + Len(Report(2)) = SemCapacity + ExtraTasks
    /\ sem = 0

\* The processHost goroutines that are inside foundHostAndPort, between
\* the read of the dedup map and the write or the return.
InFoundHostAndPort ==
    { ck \in Calls \X Items :
        IsItem(ck[1], ck[2]) /\ task[ck[1]][ck[2]].pc = "locked" }

\* C36: at most one processHost goroutine is inside foundHostAndPort, and
\* it holds the mutex; a goroutine enters it by taking the free mutex; the
\* dedup map of a call of Process2 changes only in a step of the goroutine
\* that holds the mutex, and that of a call of Process only in a turn of
\* the dispatch loop, in which no goroutine of the call takes a step.
C36_MapAccessIsRaceFree ==
    /\ [](/\ Cardinality(InFoundHostAndPort) <= 1
          /\ \A ck \in InFoundHostAndPort : mu = ck)
    /\ [][\A c \in Calls :
            /\ \A k \in Items :
                 (IsItem(c, k) /\ task[c][k].pc = "lock" /\ task'[c][k].pc = "locked")
                     => (mu = <<>> /\ mu' = <<c, k>>)
            /\ (hostMap'[c] # hostMap[c] /\ mode[c] = "Process2") =>
                 \E k \in Items :
                     /\ IsItem(c, k)
                     /\ mu = <<c, k>>
                     /\ task[c][k].pc = "locked"
                     /\ task'[c][k].pc # "locked"
                     /\ \A j \in Items \ {k} : IsItem(c, j) => task'[c][j] = task[c][j]
            /\ (hostMap'[c] # hostMap[c] /\ mode[c] = "Process") =>
                 /\ pc[c] = "dispatch"
                 /\ idx'[c] = idx[c] + 1
                 /\ \A j \in Items :
                      (IsItem(c, j) /\ j # idx'[c]) => task'[c][j] = task[c][j]]_vars

\* One processHost goroutine is inside foundHostAndPort with the mutex
\* and another, with the same key, waits for the mutex.
C36_Witness ==
    \E c \in Calls :
        /\ mode[c] = "Process2"
        /\ Len(hosts[c]) = 2
        /\ Key(c, 1) = Key(c, 2)
        /\ task[c][1].pc = "locked"
        /\ mu = <<c, 1>>
        /\ task[c][2].pc = "lock"

\* The host text of a raw target: what comes before its first colon.
HostText(item) == Split(item, ChColon)[1]

\* The port text of a raw target: what comes after its first colon, or
\* the default port when it has none.
PortText(item) ==
    IF Len(Split(item, ChColon)) >= 2 THEN Split(item, ChColon)[2] ELSE tlsDefaultPort

\* C37: Host and Port of every entry of a returned report are the host
\* text and the port text of a target of the host list.
C37_EntryIdentifiesItsTarget ==
    \A c \in Calls :
        Returned(c) =>
            \A i \in 1..Len(Report(c)) :
                \E k \in 1..Len(hosts[c]) :
                    /\ Report(c)[i].Host = HostText(hosts[c][k])
                    /\ Report(c)[i].Port = PortText(hosts[c][k])

\* The connections getCertData has opened and not closed.
OpenConns ==
    { ck \in Calls \X Items :
        IsItem(ck[1], ck[2]) /\ task[ck[1]][ck[2]].conn = "open" }

\* C38: no goroutine or promise in which getCertData has returned has an
\* open connection, so none is open once the call has returned.
C38_ConnectionsClosedOnReturn ==
    /\ \A ck \in Probed : ck \notin OpenConns
    /\ \A c \in Calls : Returned(c) => \A k \in Items : <<c, k>> \notin OpenConns

\* Wait or WaitAny was called and done is closed in every member.
AllMembersComplete ==
    waitst.pc # "none" /\ \A i \in 1..waitst.n : DoneClosed(i)

\* Every helper goroutine and the closer goroutine have ended.
HelpersTerminated ==
    /\ \A i \in 1..waitst.n : helper[i].pc = "done"
    /\ waitst.closer = "done"

\* C39: errChan never holds more errors than there are members, so no
\* send of a helper blocks; and once done is closed in every member,
\* every helper goroutine and the closer goroutine end.
C39_WaitHelpersTerminate ==
    /\ [](Len(waitst.errChan) <= waitst.n)
    /\ AllMembersComplete ~> HelpersTerminated

\* The call has returned the error of one member, the error of the other
\* was sent after that and stays in errChan, and every helper and the
\* closer have ended.
C39_Witness ==
    /\ waitst.pc = "returned"
    /\ waitst.err # ""
    /\ waitst.n = 2
    /\ Len(waitst.errChan) = 1
    /\ HelpersTerminated

====
